---- MODULE Spec2Model ----
(***************************************************************************)
(* Model of scripts/scraper.py: the tender scraping pipeline.              *)
(*                                                                         *)
(* Text is modelled as a sequence of characters, one TLA+ string per       *)
(* character.  Latin characters stand for themselves; a Hebrew letter is   *)
(* written by its name ("alef", "bet", ...), the double quote as "quote".  *)
(***************************************************************************)
EXTENDS Integers, Sequences, FiniteSets, TLC

VARIABLES
    pc,           \* position of main(): the adapter being run, or a pure-function phase
    target,       \* index of the next fetch target of the running adapter
    tenders,      \* the running adapter's result list (local `tenders` / `all_tenders`)
    resp,         \* the last response handled by the running adapter
    page_tenders, \* what the last parse call returned
    raising,      \* an exception is in flight out of the running adapter's scrape()
    all_tenders,  \* main()'s all_tenders
    returned,     \* what each scraper.scrape() call gave main(), in invocation order
    clock,        \* datetime.now(), in seconds since the run started
    supplied,     \* fragments the sources have served so far in this run
    output,       \* the envelope written by main(), NoOutput before
    padsYear,     \* whether the C library pads %Y to four digits (platform)
    arg,          \* input of the pure function under check
    ret           \* its result

vars == <<pc, target, tenders, resp, page_tenders, raising, all_tenders, returned,
          clock, supplied, output, padsYear, arg, ret>>

-----------------------------------------------------------------------------
(* Strings *)

UpperChars == <<"A","B","C","D","E","F","G","H","I","J","K","L","M",
                "N","O","P","Q","R","S","T","U","V","W","X","Y","Z">>
LowerChars == <<"a","b","c","d","e","f","g","h","i","j","k","l","m",
                "n","o","p","q","r","s","t","u","v","w","x","y","z">>

\* F(e), written so that TLC computes e once however often F uses it
Once(e, F(_)) == CHOOSE r \in {F(v) : v \in {e}} : TRUE

\* str.lower() on one character
LowerChar(c) ==
    IF \E i \in 1..Len(UpperChars) : UpperChars[i] = c
    THEN LowerChars[CHOOSE i \in 1..Len(UpperChars) : UpperChars[i] = c]
    ELSE c

\* str.lower()
lower(s) == [i \in 1..Len(s) |-> LowerChar(s[i])]

\* Python's `needle in hay` for strings
Contains(needle, hay) ==
    \E i \in 0..(Len(hay) - Len(needle)) :
        \A j \in 1..Len(needle) : hay[i + j] = needle[j]

-----------------------------------------------------------------------------
(* Categorisation *)

\* CATEGORY_MAP, in declaration order (dict order); category names transliterated
CATEGORY_MAP == <<
   [category |-> "dvbrvt",
    keywords |-> <<<<"dalet", "vav", "bet", "resh", "vav", "tav">>,
                  <<"dalet", "vav", "bet", "resh">>,
                  <<"s", "p", "o", "k", "e", "s", "m", "a", "n">>,
                  <<"he", "samekh", "bet", "resh", "he">>,
                  <<"dalet", "yod", "pe", "lamed", "vav", "mem", "tet", "yod", "he", " ", "tsadi", "yod", "bet", "vav", "resh", "yod", "tav">>>>],
   [category |-> "yxsy_cybvr",
    keywords |-> <<<<"yod", "het", "samekh", "yod", " ", "tsadi", "yod", "bet", "vav", "resh">>,
                  <<"yod", "het", "quote", "tsadi">>,
                  <<"P", "R">>,
                  <<"p", "u", "b", "l", "i", "c", " ", "r", "e", "l", "a", "t", "i", "o", "n", "s">>,
                  <<"nun", "yod", "he", "vav", "lamed", " ", "mem", "shin", "bet", "resh", "yod", "mem_f">>>>],
   [category |-> "tqwvrt",
    keywords |-> <<<<"tav", "qof", "shin", "vav", "resh", "tav">>,
                  <<"yod", "yod", "ayin", "vav", "tsadi_f", " ", "tav", "qof", "shin", "vav", "resh", "tav", "yod">>,
                  <<"c", "o", "m", "m", "u", "n", "i", "c", "a", "t", "i", "o", "n", "s">>,
                  <<"alef", "samekh", "tet", "resh", "tet", "gimel", "yod", "he", " ", "tav", "qof", "shin", "vav", "resh", "tav", "yod", "tav">>>>],
   [category |-> "prsvm",
    keywords |-> <<<<"pe", "resh", "samekh", "vav", "mem_f">>,
                  <<"qof", "mem", "pe", "yod", "yod", "nun_f">>,
                  <<"a", "d", "v", "e", "r", "t", "i", "s", "i", "n", "g">>,
                  <<"c", "a", "m", "p", "a", "i", "g", "n">>,
                  <<"qof", "resh", "yod", "alef", "yod", "yod", "tet", "yod", "bet">>,
                  <<"c", "r", "e", "a", "t", "i", "v", "e">>>>],
   [category |-> "wyvvq",
    keywords |-> <<<<"shin", "yod", "vav", "vav", "qof">>,
                  <<"m", "a", "r", "k", "e", "t", "i", "n", "g">>,
                  <<"qof", "yod", "dalet", "vav", "mem_f">>,
                  <<"qof", "vav", "pe", "yod", "resh", "yod", "yod", "tet", "yod", "nun", "gimel">>,
                  <<"kaf", "tav", "yod", "bet", "he", " ", "shin", "yod", "vav", "vav", "qof", "yod", "tav">>>>],
   [category |-> "mdyh",
    keywords |-> <<<<"mem", "dalet", "yod", "he">>,
                  <<"resh", "shin", "tav", "vav", "tav", " ", "het", "bet", "resh", "tav", "yod", "vav", "tav">>,
                  <<"dalet", "yod", "gimel", "yod", "tet", "lamed">>,
                  <<"s", "o", "c", "i", "a", "l", " ", "m", "e", "d", "i", "a">>,
                  <<"samekh", "vav", "shin", "yod", "alef", "lamed">>>>],
   [category |-> "mytvg",
    keywords |-> <<<<"mem", "yod", "tav", "vav", "gimel">>,
                  <<"b", "r", "a", "n", "d", "i", "n", "g">>,
                  <<"b", "r", "a", "n", "d">>,
                  <<"zayin", "he", "vav", "tav", " ", "mem", "vav", "tav", "gimel", "yod", "tav">>,
                  <<"lamed", "vav", "gimel", "vav">>>>],
   [category |-> "tvkn",
    keywords |-> <<<<"tav", "vav", "kaf", "nun_f">>,
                  <<"c", "o", "n", "t", "e", "n", "t">>,
                  <<"ayin", "resh", "yod", "kaf", "he">>,
                  <<"vav", "yod", "dalet", "alef", "vav">>,
                  <<"he", "pe", "qof", "he">>>>],
   [category |-> "ayrveym",
    keywords |-> <<<<"alef", "yod", "resh", "vav", "ayin", "yod", "mem_f">>,
                  <<"e", "v", "e", "n", "t", "s">>,
                  <<"kaf", "nun", "samekh", "yod", "mem_f">>,
                  <<"he", "shin", "qof", "vav", "tav">>>>],
   [category |-> "eycvb",
    keywords |-> <<<<"ayin", "yod", "tsadi", "vav", "bet">>,
                  <<"gimel", "resh", "pe", "yod">>,
                  <<"d", "e", "s", "i", "g", "n">>,
                  <<"g", "r", "a", "p", "h", "i", "c">>>>],
   [category |-> "axr",
    keywords |-> <<>>]
>>

DefaultCategory == "axr"

RECURSIVE CategorizeLoop(_, _, _)
CategorizeLoop(i, text_lower, categories) ==
    IF i > Len(CATEGORY_MAP) THEN categories
    ELSE LET entry == CATEGORY_MAP[i] IN
         IF entry.category = DefaultCategory
         THEN CategorizeLoop(i + 1, text_lower, categories)
         ELSE IF \E k \in 1..Len(entry.keywords) :
                     Contains(lower(entry.keywords[k]), text_lower)
              THEN CategorizeLoop(i + 1, text_lower, Append(categories, entry.category))
              ELSE CategorizeLoop(i + 1, text_lower, categories)

\* A mutant of categorize: compares without lowering the text.
categorize_CaseSensitive(text) ==
    Once(CategorizeLoop(1, text, <<>>), LAMBDA categories :
        IF categories # <<>> THEN categories ELSE <<DefaultCategory>>)

\* TenderScraper.categorize
categorize(text) ==
    Once(lower(text), LAMBDA text_lower :
        Once(CategorizeLoop(1, text_lower, <<>>), LAMBDA categories :
            IF categories # <<>> THEN categories ELSE <<DefaultCategory>>))

-----------------------------------------------------------------------------
(* Dates *)

\* Python's None, as a value comparable with strings-as-sequences
None == <<"None">>

Digits == <<"0","1","2","3","4","5","6","7","8","9">>

IsDigit(c) == \E i \in 1..10 : Digits[i] = c

DigitVal(c) == (CHOOSE i \in 1..10 : Digits[i] = c) - 1

\* int() of a string of digits
RECURSIVE ToInt(_)
ToInt(s) ==
    IF s = <<>> THEN 0
    ELSE Once(s, LAMBDA t : 10 * ToInt(SubSeq(t, 1, Len(t) - 1)) + DigitVal(t[Len(t)]))

\* n in decimal, zero-padded on the left to at least `width` characters
RECURSIVE ZeroPad(_, _)
ZeroPad(n, width) ==
    IF n < 10 /\ width <= 1 THEN <<Digits[n + 1]>>
    ELSE Append(ZeroPad(n \div 10, width - 1), Digits[(n % 10) + 1])

\* str.strip(), for the blank
RECURSIVE Strip(_)
Strip(s) ==
    IF s # <<>> /\ s[1] = " " THEN Once(Tail(s), Strip)
    ELSE IF s # <<>> /\ s[Len(s)] = " " THEN Once(SubSeq(s, 1, Len(s) - 1), Strip)
    ELSE s

strip(s) == Once(s, Strip)

\* date_formats of parse_date: each is three directives with one separator
\* between them ('%d/%m/%Y' is "/" and <<"%d", "%m", "%Y">>)
date_formats == <<
    [sep |-> "/", fields |-> <<"%d", "%m", "%Y">>],
    [sep |-> ".", fields |-> <<"%d", "%m", "%Y">>],
    [sep |-> "-", fields |-> <<"%Y", "%m", "%d">>],
    [sep |-> "-", fields |-> <<"%d", "%m", "%Y">>],
    [sep |-> "/", fields |-> <<"%d", "%m", "%y">>] >>

\* The text a directive's regular expression accepts (_strptime.TimeRE):
\*   %d  3[0-1]|[1-2]\d|0[1-9]|[1-9]| [1-9]     %m  1[0-2]|0[1-9]|[1-9]
\*   %Y  \d\d\d\d                               %y  \d\d
DirectiveAccepts(dir, t) ==
    /\ t # <<>>
    /\ \A i \in 1..Len(t) : IsDigit(t[i]) \/ (dir = "%d" /\ i = 1 /\ Len(t) = 2 /\ t[i] = " ")
    /\ CASE dir = "%d" ->
              \/ Len(t) = 2 /\ t[1] = " " /\ t[2] # "0"
              \/ Len(t) = 2 /\ t[1] # " " /\ ToInt(t) \in 1..31
              \/ Len(t) = 1 /\ ToInt(t) \in 1..9
         [] dir = "%m" ->
              \/ Len(t) = 2 /\ ToInt(t) \in 1..12
              \/ Len(t) = 1 /\ ToInt(t) \in 1..9
         [] dir = "%Y" -> Len(t) = 4
         [] dir = "%y" -> Len(t) = 2

\* The three texts between the separators of s, <<>> unless s holds exactly two
\* separators. The regular expression of a format must match all of s
\* ("unconverted data remains" otherwise), and no directive accepts a separator,
\* so s matches exactly when these three texts are accepted by the three
\* directives.
Fields(s, sep) ==
    LET at == {i \in 1..Len(s) : s[i] = sep}
    IN  IF Cardinality(at) # 2 THEN <<>>
        ELSE LET p == CHOOSE i \in at : \A j \in at : i <= j
                 q == CHOOSE i \in at : \A j \in at : j <= i
             IN  <<SubSeq(s, 1, p - 1), SubSeq(s, p + 1, q - 1), SubSeq(s, q + 1, Len(s))>>

\* the text of directive dir in a match, <<>> when the format has no such directive
FieldOf(fmt, texts, dir) ==
    IF \E k \in 1..3 : fmt.fields[k] = dir
    THEN texts[CHOOSE k \in 1..3 : fmt.fields[k] = dir]
    ELSE <<>>

IsLeap(year) == (year % 4 = 0 /\ year % 100 # 0) \/ year % 400 = 0

DaysInMonth(year, month) ==
    IF month = 2 THEN (IF IsLeap(year) THEN 29 ELSE 28)
    ELSE IF month \in {4, 6, 9, 11} THEN 30 ELSE 31

\* datetime's own range check
ValidDate(year, month, day) ==
    /\ year \in 1..9999
    /\ month \in 1..12
    /\ day \in 1..DaysInMonth(year, month)

\* A mutant of CenturyOf: takes every two-digit year to be of this century.
CenturyOf_Always2000(yy) == 2000 + yy

\* the POSIX pivot _strptime applies to %y: 69-99 are 19xx, 00-68 are 20xx
CenturyOf(yy) == IF yy <= 68 THEN 2000 + yy ELSE 1900 + yy

\* the date of a match, or the ValueError of a day the month does not have
Convert(fmt, texts) ==
    LET d     == FieldOf(fmt, texts, "%d")
        Y     == FieldOf(fmt, texts, "%Y")
        year  == IF Y # <<>> THEN ToInt(Y) ELSE CenturyOf(ToInt(FieldOf(fmt, texts, "%y")))
        month == ToInt(FieldOf(fmt, texts, "%m"))
        day   == ToInt(IF d[1] = " " THEN Tail(d) ELSE d)
    IN  IF ValidDate(year, month, day)
        THEN [ok |-> TRUE, year |-> year, month |-> month, day |-> day]
        ELSE [ok |-> FALSE, year |-> 0, month |-> 0, day |-> 0]

\* datetime.strptime(s, fmt): [ok |-> FALSE] stands for ValueError
strptime(s, fmt) ==
    Once(Fields(s, fmt.sep), LAMBDA texts :
        IF /\ texts # <<>>
           /\ \A k \in 1..3 : DirectiveAccepts(fmt.fields[k], texts[k])
        THEN Convert(fmt, texts)
        ELSE [ok |-> FALSE, year |-> 0, month |-> 0, day |-> 0])

\* datetime.strftime('%Y-%m-%d'): the C library's %Y pads a year below 1000 to
\* four digits on some platforms and not on others (glibc)
strftime_iso(year, month, day, pads) ==
    ZeroPad(year, IF pads THEN 4 ELSE 1) \o <<"-">> \o ZeroPad(month, 2)
        \o <<"-">> \o ZeroPad(day, 2)

RECURSIVE ParseDateLoop(_, _, _)
ParseDateLoop(s, i, pads) ==
    IF i > Len(date_formats) THEN None
    ELSE Once(strptime(s, date_formats[i]), LAMBDA parsed :
             IF parsed.ok
             THEN strftime_iso(parsed.year, parsed.month, parsed.day, pads)
             ELSE ParseDateLoop(s, i + 1, pads))

\* the titles and the dates the pages of a run are made of
TitlePR == <<"P", "R">>
TitleConstruction == <<"P", "R", " ", "bet", "yod", "nun", "vav", "yod">>

February1 == <<"0", "1", "/", "0", "2", "/", "2", "0", "2", "4">>
February30 == <<"3", "0", ".", "0", "2", ".", "2", "0", "2", "4">>
March1Iso == <<"2", "0", "2", "4", "-", "0", "3", "-", "0", "1">>
March1IsoTime == March1Iso \o <<"T", "0", "0", ":", "0", "0">>

\* TenderScraper.parse_date: [raised |-> TRUE] is the AttributeError of
\* None.strip(), which `except ValueError` does not catch
parse_date(date_str, pads) ==
    IF date_str = None
    THEN [raised |-> TRUE, value |-> None]
    ELSE [raised |-> FALSE,
          value  |-> Once(strip(date_str), LAMBDA s : ParseDateLoop(s, 1, pads))]

-----------------------------------------------------------------------------
(* Bounds *)

\* max_pages of MRGovScraper.scrape as run here (20 by default in the program)
MaxPages == 2

\* how many entries of MUNICIPALITIES and of COMPANIES the run visits (20 and 9
\* in the program)
NumMunicipalities == 2
NumCompanies == 2

\* fragments on one page, and fragments served by all sources in one run
MaxFrags == 2
MaxItems == 3

-----------------------------------------------------------------------------
(* Records *)

\* the prefixes of MUNICIPALITIES and of COMPANIES, in declaration order
MUNICIPALITIES == <<"TLV", "JLM", "HFA", "BSH", "RLZ", "PTK", "NTN", "ASD", "HLN", "BBK",
                    "RMG", "BTY", "ASK", "RHV", "HRZ", "KFS", "RNN", "MDN", "NZR", "ELT">>
COMPANIES == <<"IEC", "MKR", "ISR", "POST", "IAA", "PORT", "BZK", "EGD", "DAN">>

\* A mutant of Stamp: the timestamp is taken once, when the run starts.
Stamp_TakenOnce(c) == "20240615120000"

\* datetime.now().strftime('%Y%m%d%H%M%S') at clock second c of the run
Stamp(c) == <<"20240615120000", "20240615120001", "20240615120002", "20240615120003",
              "20240615120004", "20240615120005", "20240615120006", "20240615120007",
              "20240615120008", "20240615120009">>[c + 1]

\* datetime.now().strftime('%Y-%m-%d'): the run stays within one day
Today == <<"2", "0", "2", "4", "-", "0", "6", "-", "1", "5">>

\* the dataclass Tender: a tenderNumber is a sequence of pieces whose
\* concatenation is the string (f"{prefix}-{n}" is <<prefix, "-", n>>, "" is <<>>);
\* categories, which is categorize(title), and publisher, url, description and
\* docType are left out
Tender(tenderNumber, title, deadline, source) ==
    [tenderNumber |-> tenderNumber,
     title        |-> title,
     deadline     |-> deadline,
     source       |-> source]

\* Python's `a or b` for strings and None
Or(a, b) == IF a = <<>> \/ a = None THEN b ELSE a

\* the result of a call: a value, or an exception in flight
Ok(v) == [raised |-> FALSE, val |-> v]
Raise == [raised |-> TRUE, val |-> <<>>]

\* `<parsed> or datetime.now().strftime('%Y-%m-%d')`
OrToday(parsed) == Or(parsed, Today)

-----------------------------------------------------------------------------
(* MRGovScraper *)

\* MRGovScraper._extract_tender_number_from_url: the digits after /p/, or ""
extract_tender_number_from_url(card) == card.urlNum

\* MRGovScraper._extract_tender_number: the first of its three patterns that
\* matches the text, or the timestamp
extract_tender_number(card, now) ==
    IF card.textNum # <<>> THEN card.textNum ELSE <<"MR", "-", Stamp(now)>>

\* MRGovScraper._extract_deadline_from_text: card.deadlineRaw is what its
\* patterns capture, None when neither matches
extract_deadline_from_text(card, pads) ==
    IF card.deadlineRaw = None THEN None ELSE parse_date(card.deadlineRaw, pads).value

\* A mutant of SkipsExemption: only the two markers are looked at.
SkipsExemption_MarkersOnly(card) ==
    /\ card.ptor
    /\ ~card.michraz

\* the exemption filter of _parse_results: TRUE when the card is skipped
SkipsExemption(card) ==
    /\ card.ptor
    /\ \/ card.status
       \/ card.notice
       \/ ~card.michraz

\* the configured keywords of the relevance gate: one inclusion keyword and one
\* exclusion keyword stand for the lists
InclusionKeywords == {<<"P", "R">>}
ExclusionKeywords == {<<"bet", "yod", "nun", "vav", "yod">>}

ContainsAny(keywords, text) == \E kw \in keywords : Contains(lower(kw), lower(text))

\* matches_keywords: the exclusion test comes first
matches_keywords(text) ==
    IF ContainsAny(ExclusionKeywords, text) THEN FALSE
    ELSE ContainsAny(InclusionKeywords, text)

\* the body of the loop of MRGovScraper._parse_results for one card, before its
\* `except Exception`: the records it appends, or the exception of a card whose
\* parsing raises
ParseCardBody(card, now, pads) ==
    IF card.raises THEN Raise
    ELSE IF SkipsExemption(card) THEN Ok(<<>>)
    ELSE IF ~card.link THEN Ok(<<>>)
    ELSE IF card.title = <<>> THEN Ok(<<>>)
    ELSE LET tender_num == Or(extract_tender_number_from_url(card),
                              extract_tender_number(card, now))
             deadline == extract_deadline_from_text(card, pads)
         IN  IF tender_num # <<>> /\ card.title # <<>>
             THEN Ok(<<Tender(tender_num, card.title, OrToday(deadline), "mr.gov.il")>>)
             ELSE Ok(<<>>)

\* A mutant of ParseCard: a card is dropped unless its title passes the gate.
ParseCard_Gated(card, now, pads) ==
    LET r == ParseCardBody(card, now, pads)
    IN  IF r.raised THEN <<>>
        ELSE IF ~matches_keywords(card.title) THEN <<>>
        ELSE r.val

\* one pass of that loop, with its `except Exception: continue`
ParseCard(card, now, pads) ==
    LET r == ParseCardBody(card, now, pads)
    IN  IF r.raised THEN <<>> ELSE r.val

\* MRGovScraper._parse_results: the records of a page and the clock after it
RECURSIVE ParseCards(_, _, _, _)
ParseCards(items, now, pads, found) ==
    IF items = <<>> THEN [tenders |-> found, now |-> now]
    ELSE ParseCards(Tail(items), now + Head(items).tick, pads,
                    found \o ParseCard(Head(items), now + Head(items).tick, pads))

parse_results(items, now, pads) == ParseCards(items, now, pads, <<>>)

\* A mutant of RemoveDuplicates: the last record of a number is the one kept.
RECURSIVE RemoveDuplicates_KeepLast(_, _)
RemoveDuplicates_KeepLast(list, seen) ==
    IF list = <<>> THEN <<>>
    ELSE IF \E i \in 2..Len(list) : list[i].tenderNumber = Head(list).tenderNumber
    THEN RemoveDuplicates_KeepLast(Tail(list), seen)
    ELSE <<Head(list)>> \o RemoveDuplicates_KeepLast(Tail(list), seen)

\* first-seen-wins removal of duplicates by tenderNumber (MRGovScraper.scrape
\* and main)
RECURSIVE RemoveDuplicates(_, _)
RemoveDuplicates(list, seen) ==
    IF list = <<>> THEN <<>>
    ELSE IF Head(list).tenderNumber \in seen THEN RemoveDuplicates(Tail(list), seen)
    ELSE <<Head(list)>> \o RemoveDuplicates(Tail(list), seen \cup {Head(list).tenderNumber})

-----------------------------------------------------------------------------
(* TenderGovScraper *)

\* the body of the loop of TenderGovScraper._parse_api_results for one item,
\* before its `except Exception`: an item that is no JSON object has no .get
\* (AttributeError), and parse_date raises on an EndDate of null
ParseApiItemBody(item, pads) ==
    IF ~item.dict THEN Raise
    ELSE LET title == Or(item.Title, item.title) IN
         IF title = <<>> THEN Ok(<<>>)
         ELSE LET parsed == parse_date(item.EndDate, pads) IN
              IF parsed.raised THEN Raise
              ELSE Ok(<<Tender(Or(item.TenderId, item.id), title,
                               OrToday(parsed.value), "tender.gov.il")>>)

\* one pass of that loop, with its `except Exception: continue`
ParseApiItem(item, pads) ==
    LET r == ParseApiItemBody(item, pads)
    IN  IF r.raised THEN <<>> ELSE r.val

\* TenderGovScraper._parse_api_results on the decoded body: a body that is no
\* JSON object has no .get, and the loop is outside any try of this method
RECURSIVE ParseApiItems(_, _)
ParseApiItems(results, pads) ==
    IF results = <<>> THEN <<>>
    ELSE ParseApiItem(Head(results), pads) \o ParseApiItems(Tail(results), pads)

parse_api_results(r, pads) ==
    IF r.body # "json_object" THEN Raise
    ELSE Ok(ParseApiItems(IF r.results # <<>> THEN r.results ELSE r.items, pads))

\* the body of the loop of TenderGovScraper._scrape_html for one item
ParseHtmlItem(item, now) ==
    IF item.title_el
    THEN <<Tender(<<"GOV", "-", Stamp(now)>>, item.title, Today, "tender.gov.il")>>
    ELSE <<>>

\* the loop of _scrape_html over the items: its records and the clock after it;
\* there is no try inside this loop: an item whose parsing raises ends it
RECURSIVE ParseHtmlItems(_, _, _)
ParseHtmlItems(items, now, found) ==
    IF items = <<>> THEN [tenders |-> found, now |-> now, raised |-> FALSE]
    ELSE IF Head(items).raises
    THEN [tenders |-> found, now |-> now + Head(items).tick, raised |-> TRUE]
    ELSE ParseHtmlItems(Tail(items), now + Head(items).tick,
                        found \o ParseHtmlItem(Head(items), now + Head(items).tick))

-----------------------------------------------------------------------------
(* MunicipalScraper *)

\* MunicipalScraper._extract_number: item.numText is what (\d+[/-]?\d*) captures
\* in the number element, "" when there is no element or no digit in it
extract_number(item, prefix, now) ==
    IF item.numText # <<>> THEN <<prefix, "-">> \o item.numText
    ELSE <<prefix, "-", Stamp(now)>>

\* MunicipalScraper._extract_date, and the default of its caller when the item
\* holds no date; item.dateRaw is None then
extract_date(item, pads) ==
    IF item.dateRaw = None THEN Today
    ELSE OrToday(parse_date(item.dateRaw, pads).value)

\* the body of the loop of MunicipalScraper._parse_municipal_page for one item,
\* before its `except Exception`
ParseMunicipalItemBody(item, prefix, now, pads) ==
    IF item.raises THEN Raise
    ELSE IF ~item.title_el THEN Ok(<<>>)
    ELSE IF item.title = <<>> THEN Ok(<<>>)
    ELSE Ok(<<Tender(extract_number(item, prefix, now), item.title,
                     extract_date(item, pads), "municipal")>>)

\* one pass of that loop, with its `except Exception: continue`
ParseMunicipalItem(item, prefix, now, pads) ==
    LET r == ParseMunicipalItemBody(item, prefix, now, pads)
    IN  IF r.raised THEN <<>> ELSE r.val

\* MunicipalScraper._parse_municipal_page
RECURSIVE ParseMunicipalItems(_, _, _, _, _)
ParseMunicipalItems(items, prefix, now, pads, found) ==
    IF items = <<>> THEN [tenders |-> found, now |-> now]
    ELSE ParseMunicipalItems(Tail(items), prefix, now + Head(items).tick, pads,
             found \o ParseMunicipalItem(Head(items), prefix, now + Head(items).tick, pads))

parse_municipal_page(items, prefix, now, pads) ==
    ParseMunicipalItems(items, prefix, now, pads, <<>>)

-----------------------------------------------------------------------------
(* GovernmentCompaniesScraper *)

\* the body of the loop of GovernmentCompaniesScraper._scrape_company for one item
ParseCompanyItem(item, prefix, now) ==
    IF item.title_el /\ item.title # <<>>
    THEN <<Tender(<<prefix, "-", Stamp(now)>>, item.title, Today, "government-company")>>
    ELSE <<>>

\* the loop of _scrape_company over the items: its records and the clock after
\* it; there is no try inside this loop: an item whose parsing raises ends it
RECURSIVE ParseCompanyItems(_, _, _, _)
ParseCompanyItems(items, prefix, now, found) ==
    IF items = <<>> THEN [tenders |-> found, now |-> now, raised |-> FALSE]
    ELSE IF Head(items).raises
    THEN [tenders |-> found, now |-> now + Head(items).tick, raised |-> TRUE]
    ELSE ParseCompanyItems(Tail(items), prefix, now + Head(items).tick,
             found \o ParseCompanyItem(Head(items), prefix, now + Head(items).tick))

-----------------------------------------------------------------------------
(* main: the aggregation *)

CharOrd(c) == IF c = "-" THEN 0 ELSE DigitVal(c) + 1

\* Python's `a < b` on the strings deadlines are made of (digits and "-")
RECURSIVE StrLess(_, _)
StrLess(a, b) ==
    IF b = <<>> THEN FALSE
    ELSE IF a = <<>> THEN TRUE
    ELSE IF Head(a) # Head(b) THEN CharOrd(Head(a)) < CharOrd(Head(b))
    ELSE StrLess(Tail(a), Tail(b))

\* A mutant of Insert: x goes before the records of equal deadline.
RECURSIVE Insert_BeforeEqual(_, _)
Insert_BeforeEqual(sorted, x) ==
    IF sorted = <<>> THEN <<x>>
    ELSE IF ~StrLess(Head(sorted).deadline, x.deadline) THEN <<x>> \o sorted
    ELSE <<Head(sorted)>> \o Insert_BeforeEqual(Tail(sorted), x)

\* list.sort(key=lambda x: x['deadline']) is stable: x goes after every record
\* whose deadline is not greater
RECURSIVE Insert(_, _)
Insert(sorted, x) ==
    IF sorted = <<>> THEN <<x>>
    ELSE IF StrLess(x.deadline, Head(sorted).deadline) THEN <<x>> \o sorted
    ELSE <<Head(sorted)>> \o Insert(Tail(sorted), x)

RECURSIVE SortByDeadline(_)
SortByDeadline(list) ==
    IF list = <<>> THEN <<>>
    ELSE Insert(SortByDeadline(SubSeq(list, 1, Len(list) - 1)), list[Len(list)])

CountSource(list, source) == Len(SelectSeq(list, LAMBDA t : t.source = source))

\* the envelope main() builds and writes
Envelope(all, now) ==
    LET unique_tenders == RemoveDuplicates(all, {})
        tenders_data   == SortByDeadline(unique_tenders)
    IN  [lastUpdate |-> [date |-> Today, second |-> now],
         tenders    |-> tenders_data,
         totalCount |-> Len(tenders_data),
         sources    |-> [src \in {"mr.gov.il", "tender.gov.il", "municipal",
                                  "government-company"} |-> CountSource(tenders_data, src)],
         note       |-> IF tenders_data = <<>> THEN "none found" ELSE "found"]

\* A mutant of Collect: the list is assigned, not extended.
Collect_Assign(all, result) ==
    IF result.raised THEN all ELSE result.val

\* the body of main()'s loop over the scrapers, with its `except Exception`
Collect(all, result) ==
    IF result.raised THEN all ELSE all \o result.val

-----------------------------------------------------------------------------
(* What the sources serve *)

Card(ptor, status, notice, michraz, link, title, urlNum, textNum, deadlineRaw, tick) ==
    [ptor |-> ptor, status |-> status, notice |-> notice, michraz |-> michraz,
     link |-> link, title |-> title, urlNum |-> urlNum, textNum |-> textNum,
     deadlineRaw |-> deadlineRaw, tick |-> tick, raises |-> FALSE]

\* a fragment whose parsing raises: an exception comes out of one of the calls
\* of the loop body
Raising(item) == [item EXCEPT !.raises = TRUE]

\* result cards of the portal: what _parse_results reads of each
Cards == {
    Card(FALSE, FALSE, FALSE, TRUE, TRUE, TitlePR, <<"100">>, <<>>, February1, 0),
    Card(FALSE, FALSE, FALSE, TRUE, TRUE, TitleConstruction, <<"100">>, <<"200">>, None, 0),
    Card(FALSE, FALSE, FALSE, FALSE, TRUE, TitlePR, <<"200">>, <<>>, February30, 0),
    Card(TRUE, TRUE, FALSE, TRUE, TRUE, TitlePR, <<"300">>, <<>>, February1, 0),
    Card(TRUE, FALSE, TRUE, FALSE, TRUE, TitlePR, <<"300">>, <<>>, February1, 0),
    Card(TRUE, FALSE, FALSE, TRUE, TRUE, TitlePR, <<"300">>, <<>>, February1, 0),
    Card(TRUE, FALSE, FALSE, FALSE, TRUE, TitlePR, <<"300">>, <<>>, February1, 0),
    Card(FALSE, FALSE, FALSE, TRUE, FALSE, <<>>, <<>>, <<"200">>, None, 0),
    Card(FALSE, FALSE, FALSE, TRUE, TRUE, <<>>, <<"200">>, <<>>, None, 0),
    Card(FALSE, FALSE, FALSE, TRUE, TRUE, TitlePR, <<>>, <<"TLV", "-", "7">>, None, 0),
    Card(FALSE, FALSE, FALSE, FALSE, TRUE, TitlePR, <<>>, <<>>, None, 0),
    Card(FALSE, FALSE, FALSE, FALSE, TRUE, TitlePR, <<>>, <<>>, None, 1),
    Card(FALSE, FALSE, FALSE, TRUE, TRUE, TitleConstruction, <<>>,
         <<"GOV", "-", "20240615120000">>, None, 0),
    Raising(Card(FALSE, FALSE, FALSE, TRUE, TRUE, TitlePR, <<"100">>, <<>>, February1, 0)) }

ApiItem(dict, Title, title, TenderId, id, EndDate) ==
    [dict |-> dict, Title |-> Title, title |-> title, TenderId |-> TenderId,
     id |-> id, EndDate |-> EndDate]

\* items of the API's result list: a key that is absent reads as "" (the
\* default of item.get), an EndDate of null as None
ApiItems == {
    ApiItem(TRUE, TitlePR, <<>>, <<"100">>, <<>>, March1Iso),
    ApiItem(TRUE, TitlePR, <<>>, <<>>, <<>>, <<>>),
    ApiItem(TRUE, <<>>, TitleConstruction, <<>>, <<"400">>, March1IsoTime),
    ApiItem(TRUE, <<>>, <<>>, <<"500">>, <<>>, March1Iso),
    ApiItem(FALSE, <<>>, <<>>, <<>>, <<>>, <<>>),
    ApiItem(TRUE, TitlePR, <<>>, <<"500">>, <<>>, None) }

\* items of an HTML page of gov.il or of a company: the heading and its text
HtmlItems == {
    [title_el |-> TRUE, title |-> TitlePR, tick |-> 0, raises |-> FALSE],
    [title_el |-> TRUE, title |-> TitleConstruction, tick |-> 1, raises |-> FALSE],
    [title_el |-> TRUE, title |-> <<>>, tick |-> 0, raises |-> FALSE],
    [title_el |-> FALSE, title |-> <<>>, tick |-> 0, raises |-> FALSE],
    [title_el |-> TRUE, title |-> TitlePR, tick |-> 0, raises |-> TRUE] }

\* items of a municipal page
MunicipalItems == {
    [title_el |-> TRUE, title |-> TitlePR, numText |-> <<"7">>, dateRaw |-> February1, tick |-> 0,
     raises |-> FALSE],
    [title_el |-> TRUE, title |-> TitleConstruction, numText |-> <<"7">>, dateRaw |-> None, tick |-> 0,
     raises |-> FALSE],
    [title_el |-> TRUE, title |-> TitlePR, numText |-> <<>>, dateRaw |-> February30, tick |-> 0,
     raises |-> FALSE],
    [title_el |-> TRUE, title |-> TitlePR, numText |-> <<>>, dateRaw |-> None, tick |-> 1,
     raises |-> FALSE],
    [title_el |-> TRUE, title |-> <<>>, numText |-> <<"8">>, dateRaw |-> None, tick |-> 0,
     raises |-> FALSE],
    [title_el |-> FALSE, title |-> <<>>, numText |-> <<"8">>, dateRaw |-> None, tick |-> 0,
     raises |-> FALSE],
    [title_el |-> TRUE, title |-> TitlePR, numText |-> <<"7">>, dateRaw |-> February1, tick |-> 0,
     raises |-> TRUE] }

Min(a, b) == IF a < b THEN a ELSE b

\* the pages of at most n fragments over S
Pages(S, n) == UNION {[1..k -> S] : k \in 0..n}

\* what session.get gives: an exception (a timeout, a refused connection), or a
\* status with a body
Exception == [kind |-> "exception", status |-> 0, body |-> "", results |-> <<>>, items |-> <<>>]
Http(status, body, results, items) ==
    [kind |-> "http", status |-> status, body |-> body, results |-> results, items |-> items]
NoResp == [kind |-> "none", status |-> 0, body |-> "", results |-> <<>>, items |-> <<>>]

HtmlResponses(S, n) ==
    {Exception, Http(503, "html", <<>>, <<>>)}
        \cup {Http(200, "html", <<>>, p) : p \in Pages(S, n)}

\* the API answers with a body that is no JSON, with a JSON array, or with an
\* object whose lists are under "results", under "items", or under both
ApiResponses(n) ==
    {Exception, Http(503, "html", <<>>, <<>>),
     Http(200, "undecodable", <<>>, <<>>), Http(200, "json_array", <<>>, <<>>)}
        \cup {Http(200, "json_object", p, <<>>) : p \in Pages(ApiItems, n)}
        \cup {Http(200, "json_object", <<>>, p) : p \in Pages(ApiItems, n)}
        \cup {Http(200, "json_object", <<a>>, <<b>>) : a, b \in IF n >= 2 THEN ApiItems ELSE {}}

Served(r) == Len(r.results) + Len(r.items)

-----------------------------------------------------------------------------
(* The run: one step per request, and one per return of scrape() to main *)

Room == Min(MaxFrags, MaxItems - supplied)

Outcome(raised, stop, list, now) ==
    [raised |-> raised, stop |-> stop, tenders |-> list, now |-> now]

\* one pass of the loop over the pages in MRGovScraper.scrape, inside its try:
\* stop is the `break`
PortalPage(r, now, pads) ==
    IF r.kind = "exception" THEN Outcome(TRUE, FALSE, <<>>, now)
    ELSE IF r.status = 200
    THEN LET page == parse_results(r.items, now, pads)
         IN  Outcome(FALSE, page.tenders = <<>>, page.tenders, page.now)
    ELSE Outcome(FALSE, TRUE, <<>>, now)

\* A mutant of Except: the exception leaves scrape().
Except_Propagates(o) == o

\* `except Exception as e: logger.error(...)` around the body of a scrape method:
\* the exception ends the try block and the method goes on after it
Except(o) == IF o.raised THEN [o EXCEPT !.raised = FALSE, !.stop = TRUE] ELSE o

Init ==
    /\ pc = "mr_fetch"
    /\ target = 0
    /\ tenders = <<>>
    /\ resp = NoResp
    /\ page_tenders = <<>>
    /\ raising = FALSE
    /\ all_tenders = <<>>
    /\ returned = <<>>
    /\ clock = 0
    /\ supplied = 0
    /\ output = <<>>
    /\ padsYear = FALSE
    /\ arg = <<>>
    /\ ret = <<>>

\* MRGovScraper.scrape, from one session.get to the next
PortalFetch ==
    /\ pc = "mr_fetch"
    /\ \E r \in HtmlResponses(Cards, Room) :
         \E o \in {Except(PortalPage(r, clock, padsYear))} :
             /\ resp' = r
             /\ supplied' = supplied + Served(r)
             /\ page_tenders' = o.tenders
             /\ tenders' = tenders \o o.tenders
             /\ clock' = o.now
             /\ raising' = o.raised
             /\ IF o.raised \/ o.stop \/ target + 1 >= MaxPages
                THEN pc' = "mr_return" /\ target' = target
                ELSE pc' = "mr_fetch" /\ target' = target + 1
    /\ UNCHANGED <<all_tenders, returned, output, padsYear, arg, ret>>

\* what main() keeps of a scrape() that ended: its list, or the exception
Result(list) == IF raising THEN Raise ELSE Ok(list)

ReturnToMain(result, next) ==
    /\ all_tenders' = Collect(all_tenders, result)
    /\ returned' = Append(returned, result)
    /\ pc' = next
    /\ target' = 0
    /\ tenders' = <<>>
    /\ resp' = NoResp
    /\ page_tenders' = <<>>
    /\ raising' = FALSE
    /\ UNCHANGED <<clock, supplied, output, padsYear, arg, ret>>

\* the end of MRGovScraper.scrape: its removal of duplicates, and main's loop body
PortalReturn ==
    /\ pc = "mr_return"
    /\ ReturnToMain(Result(RemoveDuplicates(tenders, {})), "gov_api")

\* the try block of TenderGovScraper.scrape up to its call of _scrape_html:
\* stop is FALSE when the fallback is to be tried
GovApiCall(r, pads) ==
    IF r.kind = "exception" THEN Outcome(TRUE, FALSE, <<>>, 0)
    ELSE IF r.status = 200
    THEN IF r.body = "undecodable" THEN Outcome(TRUE, FALSE, <<>>, 0)
         ELSE LET parsed == parse_api_results(r, pads)
              IN  Outcome(parsed.raised, TRUE, parsed.val, 0)
    ELSE Outcome(FALSE, FALSE, <<>>, 0)

\* TenderGovScraper.scrape: the request to the API
GovApi ==
    /\ pc = "gov_api"
    /\ \E r \in ApiResponses(Room) :
         \E o \in {Except(GovApiCall(r, padsYear))} :
             /\ resp' = r
             /\ supplied' = supplied + Served(r)
             /\ page_tenders' = o.tenders
             /\ tenders' = tenders \o o.tenders
             /\ raising' = o.raised
             /\ pc' = IF o.raised \/ o.stop THEN "gov_return" ELSE "gov_html"
    /\ UNCHANGED <<target, clock, all_tenders, returned, output, padsYear, arg, ret>>

\* the try block of TenderGovScraper._scrape_html
ScrapeHtmlBody(r, now) ==
    IF r.kind = "exception" THEN Outcome(TRUE, FALSE, <<>>, now)
    ELSE IF r.status = 200
    THEN LET page == ParseHtmlItems(r.items, now, <<>>)
         IN  Outcome(page.raised, FALSE, page.tenders, page.now)
    ELSE Outcome(FALSE, FALSE, <<>>, now)

\* TenderGovScraper._scrape_html, called by scrape() inside its own try
GovHtml ==
    /\ pc = "gov_html"
    /\ \E r \in HtmlResponses(HtmlItems, Room) :
         \E o \in {Except(Except(ScrapeHtmlBody(r, clock)))} :
             /\ resp' = r
             /\ supplied' = supplied + Served(r)
             /\ page_tenders' = o.tenders
             /\ tenders' = tenders \o o.tenders
             /\ clock' = o.now
             /\ raising' = o.raised
             /\ pc' = "gov_return"
    /\ UNCHANGED <<target, all_tenders, returned, output, padsYear, arg, ret>>

GovReturn ==
    /\ pc = "gov_return"
    /\ ReturnToMain(Result(tenders), "muni_fetch")

\* the try block of MunicipalScraper._scrape_municipality
ScrapeMunicipalityBody(r, prefix, now, pads) ==
    IF r.kind = "exception" THEN Outcome(TRUE, FALSE, <<>>, now)
    ELSE IF r.status = 200
    THEN LET page == parse_municipal_page(r.items, prefix, now, pads)
         IN  Outcome(FALSE, FALSE, page.tenders, page.now)
    ELSE Outcome(FALSE, FALSE, <<>>, now)

\* one pass of the loop of MunicipalScraper.scrape
MunicipalFetch ==
    /\ pc = "muni_fetch"
    /\ \E r \in HtmlResponses(MunicipalItems, Room) :
         \E o \in {Except(ScrapeMunicipalityBody(r, MUNICIPALITIES[target + 1], clock, padsYear))} :
             /\ resp' = r
             /\ supplied' = supplied + Served(r)
             /\ page_tenders' = o.tenders
             /\ tenders' = tenders \o o.tenders
             /\ clock' = o.now
             /\ raising' = o.raised
             /\ IF o.raised \/ target + 1 >= NumMunicipalities
                THEN pc' = "muni_return" /\ target' = target
                ELSE pc' = "muni_fetch" /\ target' = target + 1
    /\ UNCHANGED <<all_tenders, returned, output, padsYear, arg, ret>>

MunicipalReturn ==
    /\ pc = "muni_return"
    /\ ReturnToMain(Result(tenders), "co_fetch")

\* the try block of GovernmentCompaniesScraper._scrape_company
ScrapeCompanyBody(r, prefix, now) ==
    IF r.kind = "exception" THEN Outcome(TRUE, FALSE, <<>>, now)
    ELSE IF r.status = 200
    THEN LET page == ParseCompanyItems(r.items, prefix, now, <<>>)
         IN  Outcome(page.raised, FALSE, page.tenders, page.now)
    ELSE Outcome(FALSE, FALSE, <<>>, now)

\* one pass of the loop of GovernmentCompaniesScraper.scrape
CompanyFetch ==
    /\ pc = "co_fetch"
    /\ \E r \in HtmlResponses(HtmlItems, Room) :
         \E o \in {Except(ScrapeCompanyBody(r, COMPANIES[target + 1], clock))} :
             /\ resp' = r
             /\ supplied' = supplied + Served(r)
             /\ page_tenders' = o.tenders
             /\ tenders' = tenders \o o.tenders
             /\ clock' = o.now
             /\ raising' = o.raised
             /\ IF o.raised \/ target + 1 >= NumCompanies
                THEN pc' = "co_return" /\ target' = target
                ELSE pc' = "co_fetch" /\ target' = target + 1
    /\ UNCHANGED <<all_tenders, returned, output, padsYear, arg, ret>>

CompanyReturn ==
    /\ pc = "co_return"
    /\ ReturnToMain(Result(tenders), "aggregate")

\* main() after its loop: the envelope, written to data/tenders.json
Aggregate ==
    /\ pc = "aggregate"
    /\ output' = <<Envelope(all_tenders, clock)>>
    /\ pc' = "done"
    /\ UNCHANGED <<target, tenders, resp, page_tenders, raising, all_tenders, returned,
                   clock, supplied, padsYear, arg, ret>>

Next ==
    \/ PortalFetch
    \/ PortalReturn
    \/ GovApi
    \/ GovHtml
    \/ GovReturn
    \/ MunicipalFetch
    \/ MunicipalReturn
    \/ CompanyFetch
    \/ CompanyReturn
    \/ Aggregate

Spec == Init /\ [][Next]_vars

-----------------------------------------------------------------------------
(* categorize on its own *)

\* words per text
MaxWords == 2

\* the words the texts are made of: synonyms of several categories in either
\* case, one inside a longer word, the default label itself, and words of no
\* category
Words == <<
    <<"P", "R">>,
    <<"a", "p", "p", "r", "o", "v", "e">>,
    <<"B", "r", "a", "n", "d", "i", "n", "g">>,
    <<"S", "o", "c", "i", "a", "l">>,
    <<"m", "e", "d", "i", "a">>,
    <<"c", "a", "m", "p", "a", "i", "g", "n">>,
    <<"D", "E", "S", "I", "G", "N">>,
    <<"dalet", "vav", "bet", "resh", "vav", "tav">>,
    <<"tav", "vav", "kaf", "nun_f">>,
    <<"alef", "het", "resh">>,
    <<"r", "o", "a", "d">>,
    <<"bet", "yod", "nun", "vav", "yod">> >>

RECURSIVE Join(_)
Join(ws) ==
    IF ws = <<>> THEN <<>>
    ELSE IF Len(ws) = 1 THEN Words[ws[1]]
    ELSE Words[ws[1]] \o <<" ">> \o Join(Tail(ws))

Texts == {Join(ws) : ws \in UNION {[1..n -> 1..Len(Words)] : n \in 0..MaxWords}}

InitCat ==
    /\ pc = "categorize"
    /\ arg \in Texts
    /\ ret = <<>>
    /\ target = 0
    /\ tenders = <<>>
    /\ resp = NoResp
    /\ page_tenders = <<>>
    /\ raising = FALSE
    /\ all_tenders = <<>>
    /\ returned = <<>>
    /\ clock = 0
    /\ supplied = 0
    /\ output = <<>>
    /\ padsYear = FALSE

CallCategorize ==
    /\ pc = "categorize"
    /\ ret' = categorize(arg)
    /\ pc' = "categorized"
    /\ UNCHANGED <<target, tenders, resp, page_tenders, raising, all_tenders, returned,
                   clock, supplied, output, padsYear, arg>>

SpecCat == InitCat /\ [][CallCategorize]_vars

-----------------------------------------------------------------------------
(* parse_date on its own *)

Years == {999, 1900, 1968, 1969, 2000, 2023, 2024, 2068, 2069}
Months == {1, 2, 4, 12}
Days == {1, 28, 29, 30, 31}

\* a date written in the k-th pattern, zero-padded: dd/mm/yyyy, dd.mm.yyyy,
\* yyyy-mm-dd, dd-mm-yyyy, dd/mm/yy
Written(k, year, month, day) ==
    LET dd   == ZeroPad(day, 2)
        mm   == ZeroPad(month, 2)
        yyyy == ZeroPad(year, 4)
    IN  CASE k = 1 -> dd \o <<"/">> \o mm \o <<"/">> \o yyyy
          [] k = 2 -> dd \o <<".">> \o mm \o <<".">> \o yyyy
          [] k = 3 -> yyyy \o <<"-">> \o mm \o <<"-">> \o dd
          [] k = 4 -> dd \o <<"-">> \o mm \o <<"-">> \o yyyy
          [] k = 5 -> dd \o <<"/">> \o mm \o <<"/">> \o ZeroPad(year % 100, 2)

\* strings in none of the patterns
Unparsable == {
    <<>>,
    <<"a", "b", "c">>,
    <<"0", "1", "/", "0", "2", ".", "2", "0", "2", "4">>,
    <<"0", "1", "/", "0", "2">>,
    <<"0", "1", "/", "0", "2", "/", "2", "0", "2">>,
    <<"0", "1", "/", "0", "2", "/", "2", "0", "2", "4", "5">>,
    <<"0", "1", "/", "1", "3", "/", "2", "0", "2", "4">>,
    <<"0", "0", "/", "0", "1", "/", "2", "0", "2", "4">>,
    <<"0", "1", "/", "0", "1", "/", "0", "0", "0", "0">>,
    <<"2", "0", "2", "4", "/", "0", "1", "/", "0", "2">>,
    March1IsoTime }

\* what parse_date is given, with the date it was written from
DateInputs ==
    {[s |-> Written(k, y, m, d), kind |-> "written", k |-> k, year |-> y, month |-> m, day |-> d] :
        k \in 1..5, y \in Years, m \in Months, d \in Days}
    \cup {[s |-> <<" ">> \o Written(k, 2024, 2, 29) \o <<" ">>, kind |-> "written", k |-> k,
           year |-> 2024, month |-> 2, day |-> 29] : k \in 1..5}
    \cup {[s |-> u, kind |-> "unparsable", k |-> 0, year |-> 0, month |-> 0, day |-> 0] :
            u \in Unparsable}
    \cup {[s |-> None, kind |-> "null", k |-> 0, year |-> 0, month |-> 0, day |-> 0]}

InitDate ==
    /\ pc = "parse_date"
    /\ arg \in DateInputs
    /\ ret = [raised |-> FALSE, value |-> None]
    /\ padsYear \in BOOLEAN
    /\ target = 0
    /\ tenders = <<>>
    /\ resp = NoResp
    /\ page_tenders = <<>>
    /\ raising = FALSE
    /\ all_tenders = <<>>
    /\ returned = <<>>
    /\ clock = 0
    /\ supplied = 0
    /\ output = <<>>

CallParseDate ==
    /\ pc = "parse_date"
    /\ ret' = parse_date(arg.s, padsYear)
    /\ pc' = "parsed"
    /\ UNCHANGED <<target, tenders, resp, page_tenders, raising, all_tenders, returned,
                   clock, supplied, output, padsYear, arg>>

SpecDate == InitDate /\ [][CallParseDate]_vars

-----------------------------------------------------------------------------
(* Properties of the run *)

\* the list main() received from the i-th scraper
Results(i) == IF returned[i].raised THEN <<>> ELSE returned[i].val

\* the concatenation of the lists of the scrapers, in the order of invocation
RECURSIVE ConcatFrom(_)
ConcatFrom(i) == IF i > Len(returned) THEN <<>> ELSE Results(i) \o ConcatFrom(i + 1)

Concatenation == ConcatFrom(1)

\* the source each scraper gives its records, in the order main() lists them
AdapterSource == <<"mr.gov.il", "tender.gov.il", "municipal", "government-company">>

Numbers(list) == {list[k].tenderNumber : k \in DOMAIN list}

\* the position of the first record of a number
FirstIndex(list, number) ==
    CHOOSE k \in DOMAIN list :
        /\ list[k].tenderNumber = number
        /\ \A m \in 1..(k - 1) : list[m].tenderNumber # number

Snapshot == output[1].tenders

\* C1: once main() has run the four scrapers in order, the envelope holds one
\* record per tenderNumber of the concatenation of their lists, each the first
\* record of its number in that concatenation, and no number twice.
C1_FirstSeenWins ==
    pc = "done" =>
        /\ Len(returned) = 4
        /\ \A i \in 1..4 : \A j \in DOMAIN Results(i) : Results(i)[j].source = AdapterSource[i]
        /\ Numbers(Snapshot) = Numbers(Concatenation)
        /\ \A i, j \in DOMAIN Snapshot :
               i # j => Snapshot[i].tenderNumber # Snapshot[j].tenderNumber
        /\ \A i \in DOMAIN Snapshot :
               Snapshot[i] = Concatenation[FirstIndex(Concatenation, Snapshot[i].tenderNumber)]

\* two scrapers returned records of one number that differ
C1_Witness ==
    /\ pc = "done"
    /\ \E i, j \in 1..4 :
         /\ i < j
         /\ \E a \in DOMAIN Results(i), b \in DOMAIN Results(j) :
              /\ Results(i)[a].tenderNumber = Results(j)[b].tenderNumber
              /\ Results(i)[a] # Results(j)[b]

RECURSIVE SumOfCounts(_, _)
SumOfCounts(i, skip) ==
    IF i > Len(returned) THEN 0
    ELSE (IF i = skip THEN 0 ELSE Len(Results(i))) + SumOfCounts(i + 1, skip)

OthersNumbers(skip) ==
    UNION {Numbers(Results(i)) : i \in (1..Len(returned)) \ {skip}}

WellFormed(envelope) ==
    /\ {"lastUpdate", "tenders", "totalCount"} \subseteq DOMAIN envelope
    /\ envelope.lastUpdate.date = Today
    /\ envelope.totalCount = Len(envelope.tenders)

\* C2 as stated: when a scraper returns nothing the others are still run, the
\* envelope is built, and totalCount is the sum of the lengths of the lists of
\* the others.
C2_SumOfOthers ==
    pc = "done" =>
        \A i \in 1..4 :
            Results(i) = <<>> =>
                /\ Len(returned) = 4
                /\ WellFormed(output[1])
                /\ output[1].totalCount = SumOfCounts(1, i)

\* C2 as amended: when a scraper returns nothing the others are still run, the
\* envelope is built, and totalCount is the number of distinct tenderNumbers in
\* the lists of the others.
C2_DistinctOfOthers ==
    pc = "done" =>
        \A i \in 1..4 :
            Results(i) = <<>> =>
                /\ Len(returned) = 4
                /\ WellFormed(output[1])
                /\ output[1].totalCount = Cardinality(OthersNumbers(i))

\* one scraper returned nothing, two others returned records, and a number is
\* in two of the lists
C2_Witness ==
    /\ pc = "done"
    /\ \E i \in 1..4 :
         /\ Results(i) = <<>>
         /\ Cardinality({j \in 1..4 : Results(j) # <<>>}) >= 2
         /\ Cardinality(OthersNumbers(i)) < SumOfCounts(1, i)
         /\ output[1].totalCount > 0

\* C3: no scrape() lets an exception out: whatever the requests give, each of
\* the four ends and hands main() a list.
C3_NeverRaises ==
    /\ ~raising
    /\ \A i \in DOMAIN returned : ~returned[i].raised
    /\ pc \in {"mr_return", "gov_return", "muni_return", "co_return"} => ~Result(tenders).raised

\* a scrape() ends after a request that raised, or after a body of the wrong shape
C3_Witness ==
    /\ pc \in {"mr_return", "gov_return", "muni_return", "co_return"}
    /\ \/ resp.kind = "exception"
       \/ resp.body \in {"undecodable", "json_array"}
    /\ ~raising

\* C4: no record has an empty tenderNumber, in a scraper's list or in the
\* envelope.
C4_NumberNeverEmpty ==
    /\ \A i \in DOMAIN tenders : tenders[i].tenderNumber # <<>>
    /\ \A i \in DOMAIN all_tenders : all_tenders[i].tenderNumber # <<>>
    /\ pc = "done" => \A i \in DOMAIN Snapshot : Snapshot[i].tenderNumber # <<>>

\* C5: no record has an empty title, in a scraper's list or in the envelope.
C5_TitleNeverEmpty ==
    /\ \A i \in DOMAIN tenders : tenders[i].title # <<>>
    /\ \A i \in DOMAIN all_tenders : all_tenders[i].title # <<>>
    /\ pc = "done" => \A i \in DOMAIN Snapshot : Snapshot[i].title # <<>>

\* C6: the envelope's records are in ascending order of deadline, and records
\* of equal deadline are in the order of their first occurrence in the
\* concatenation of the scrapers' lists.
C6_StableAscending ==
    pc = "done" =>
        \A i, j \in DOMAIN Snapshot :
            i < j =>
                /\ ~StrLess(Snapshot[j].deadline, Snapshot[i].deadline)
                /\ Snapshot[i].deadline = Snapshot[j].deadline =>
                       FirstIndex(Concatenation, Snapshot[i].tenderNumber)
                           < FirstIndex(Concatenation, Snapshot[j].tenderNumber)

\* three records or more, two of them of one deadline, and the sort moved one
C6_Witness ==
    /\ pc = "done"
    /\ Len(Snapshot) >= 3
    /\ \E i, j \in DOMAIN Snapshot : i < j /\ Snapshot[i].deadline = Snapshot[j].deadline
    /\ \E i, j \in DOMAIN Snapshot :
         /\ i < j
         /\ FirstIndex(Concatenation, Snapshot[i].tenderNumber)
                > FirstIndex(Concatenation, Snapshot[j].tenderNumber)

\* the cards of a page that _parse_results turns into records
Emitted(cards) ==
    SelectSeq(cards, LAMBDA c :
        /\ ~c.raises
        /\ ~(c.ptor /\ (c.status \/ c.notice \/ ~c.michraz))
        /\ c.link
        /\ c.title # <<>>)

ExclusionDominates ==
    \A text \in {c.title : c \in Cards} \cup {it.title : it \in HtmlItems} :
        ContainsAny(ExclusionKeywords, text) => ~matches_keywords(text)

\* C7 as stated: matches_keywords is false of a text with an exclusion keyword,
\* and no record's title contains an exclusion keyword.
C7_NoExcludedTitle ==
    /\ ExclusionDominates
    /\ \A i \in DOMAIN tenders : ~ContainsAny(ExclusionKeywords, tenders[i].title)

\* C7 as amended: matches_keywords is false of a text with an exclusion keyword,
\* and the portal scraper applies no such gate: a page's records are its cards
\* that parse without an exception, pass the exemption filter and have a link
\* and a title, one for one, whatever keywords the titles hold.
C7_NoKeywordGate ==
    /\ ExclusionDominates
    /\ (pc \in {"mr_fetch", "mr_return"} /\ resp.kind = "http" /\ resp.status = 200) =>
           /\ Len(page_tenders) = Len(Emitted(resp.items))
           /\ \A i \in DOMAIN page_tenders : page_tenders[i].title = Emitted(resp.items)[i].title

\* a page gave a record whose title holds an exclusion keyword, and one whose
\* title holds no exclusion keyword
C7_Witness ==
    /\ pc \in {"mr_fetch", "mr_return"}
    /\ resp.kind = "http" /\ resp.status = 200
    /\ \E i \in DOMAIN page_tenders : ContainsAny(ExclusionKeywords, page_tenders[i].title)
    /\ \E i \in DOMAIN page_tenders : matches_keywords(page_tenders[i].title)

\* C10: the portal's pages are requested in order and at most MaxPages of them,
\* and the scan does not end on a page of status 200 that held a card, unless
\* it was the last page allowed.
C10_StopsOnlyAtEmptyPage ==
    /\ pc \in {"mr_fetch", "mr_return"} => target < MaxPages
    /\ (pc = "mr_return" /\ resp.kind = "http" /\ resp.status = 200 /\ resp.items # <<>>) =>
           target + 1 >= MaxPages

-----------------------------------------------------------------------------
(* Properties of categorize *)

\* a letter without its case
Fold(c) ==
    IF \E i \in 1..Len(LowerChars) : LowerChars[i] = c
    THEN UpperChars[CHOOSE i \in 1..Len(LowerChars) : LowerChars[i] = c]
    ELSE c

\* kw is in text, the case of the letters apart
Occurs(kw, text) ==
    \E i \in 0..(Len(text) - Len(kw)) :
        \A j \in 1..Len(kw) : Fold(text[i + j]) = Fold(kw[j])

\* the places in CATEGORY_MAP of the categories with a synonym in arg
Matching ==
    {i \in 1..Len(CATEGORY_MAP) :
        /\ CATEGORY_MAP[i].category # DefaultCategory
        /\ \E k \in DOMAIN CATEGORY_MAP[i].keywords : Occurs(CATEGORY_MAP[i].keywords[k], arg)}

PlaceOf(category) == CHOOSE i \in 1..Len(CATEGORY_MAP) : CATEGORY_MAP[i].category = category

\* C8: categorize gives the categories, other than the default, that have a
\* synonym in the text whatever the case, in the order of CATEGORY_MAP and each
\* once; with no such category it gives the default alone. It is never empty,
\* and the default never comes with another category.
C8_Categories ==
    pc = "categorized" =>
        /\ ret # <<>>
        /\ \A a, b \in DOMAIN ret : a # b => ret[a] # ret[b]
        /\ IF Matching = {}
           THEN ret = <<DefaultCategory>>
           ELSE /\ {ret[a] : a \in DOMAIN ret} = {CATEGORY_MAP[i].category : i \in Matching}
                /\ \A a, b \in DOMAIN ret : a < b => PlaceOf(ret[a]) < PlaceOf(ret[b])
                /\ \A a \in DOMAIN ret : ret[a] # DefaultCategory

\* a text with capital letters that has synonyms of two categories or more
C8_Witness ==
    /\ pc = "categorized"
    /\ Len(ret) >= 2
    /\ lower(arg) # arg

-----------------------------------------------------------------------------
(* Properties of parse_date *)

TwoDigits(n) == <<Digits[(n \div 10) + 1], Digits[(n % 10) + 1]>>

\* YYYY-MM-DD
Canonical(year, month, day) ==
    TwoDigits(year \div 100) \o TwoDigits(year % 100) \o <<"-">>
        \o TwoDigits(month) \o <<"-">> \o TwoDigits(day)

LastDay(year, month) ==
    CASE month \in {1, 3, 5, 7, 8, 10, 12} -> 31
      [] month \in {4, 6, 9, 11} -> 30
      [] month = 2 /\ year % 400 = 0 -> 29
      [] month = 2 /\ year % 400 # 0 /\ year % 100 = 0 -> 28
      [] month = 2 /\ year % 100 # 0 /\ year % 4 = 0 -> 29
      [] month = 2 /\ year % 4 # 0 -> 28

OnCalendar(a) == a.day <= LastDay(a.year, a.month)

\* C9 as stated: a calendar date written in any of the five patterns parses to
\* that date in the form YYYY-MM-DD, a string in no pattern gives null, and
\* parse_date never raises.
C9_RoundTripAll ==
    pc = "parsed" =>
        /\ ~ret.raised
        /\ (arg.kind = "written" /\ OnCalendar(arg)) =>
               ret.value = Canonical(arg.year, arg.month, arg.day)
        /\ arg.kind = "unparsable" => ret.value = None

\* the years a pattern gives back: a year of two digits is read as one of
\* 1969-2068, and a year below 1000 is not always printed in four digits
GivenBack(a) ==
    IF a.k = 5 THEN a.year \in 1969..2068 ELSE a.year \in 1000..9999

\* C9 as amended: a calendar date of the years 1000-9999 written in one of the
\* four patterns with a four-digit year, or of the years 1969-2068 written as
\* dd/mm/yy, parses to that date in the form YYYY-MM-DD; a string in no
\* pattern, or written in these patterns and years from a day its month does
\* not have, gives null; a string never makes parse_date raise, and null in
\* place of the string does.
C9_RoundTripInRange ==
    pc = "parsed" =>
        /\ ret.raised <=> arg.kind = "null"
        /\ (arg.kind = "written" /\ OnCalendar(arg) /\ GivenBack(arg)) =>
               ret.value = Canonical(arg.year, arg.month, arg.day)
        /\ (arg.kind = "written" /\ ~OnCalendar(arg) /\ GivenBack(arg)) => ret.value = None
        /\ arg.kind = "unparsable" => ret.value = None

\* a date of 1969 written as dd/mm/yy came back as written
C9_Witness ==
    /\ pc = "parsed"
    /\ arg.kind = "written"
    /\ arg.k = 5
    /\ arg.year = 1969
    /\ ret.value = Canonical(arg.year, arg.month, arg.day)

-----------------------------------------------------------------------------
(* Properties of the portal's exemption filter *)

\* a page of the portal has just been parsed
PortalPageParsed ==
    /\ pc \in {"mr_fetch", "mr_return"}
    /\ resp.kind = "http"
    /\ resp.status = 200

\* a card that becomes a record when the filter lets it through
Parsable(c) == ~c.raises /\ c.link /\ c.title # <<>>

\* the exemption marker without the tender marker
MarkerAlone(c) == c.ptor /\ ~c.michraz

\* the exemption marker, and either the status or the notice phrase, or no
\* tender marker
Exempt(c) == c.ptor /\ (c.status \/ c.notice \/ ~c.michraz)

\* C11 as stated: a card is kept from the records by the filter exactly when
\* its text has the exemption marker and not the tender marker.
C11_MarkersDecide ==
    PortalPageParsed =>
        Len(page_tenders) =
            Len(SelectSeq(resp.items, LAMBDA c : Parsable(c) /\ ~MarkerAlone(c)))

\* C11 as amended: a card with the exemption marker gives no record when its
\* text has the status phrase or the notice phrase of an exemption, or has not
\* the tender marker; with both markers and neither phrase, and without the
\* exemption marker, the filter lets it through.
C11_PhrasesDecide ==
    PortalPageParsed =>
        /\ Len(page_tenders) =
               Len(SelectSeq(resp.items, LAMBDA c : Parsable(c) /\ ~Exempt(c)))
        /\ (\A k \in DOMAIN resp.items : Exempt(resp.items[k])) => page_tenders = <<>>
        /\ (\A k \in DOMAIN resp.items :
                Parsable(resp.items[k]) /\ ~Exempt(resp.items[k])) =>
               Len(page_tenders) = Len(resp.items)

\* a page held a card with both markers and the status phrase, which gave no
\* record, and a card with both markers and no phrase, which gave one
C11_Witness ==
    /\ PortalPageParsed
    /\ Len(resp.items) = 2
    /\ \E k \in DOMAIN resp.items :
         resp.items[k].ptor /\ resp.items[k].michraz /\ resp.items[k].status
    /\ \E k \in DOMAIN resp.items :
         /\ resp.items[k].ptor /\ resp.items[k].michraz
         /\ ~resp.items[k].status /\ ~resp.items[k].notice
    /\ Len(page_tenders) = 1

-----------------------------------------------------------------------------
(* Properties of the lists scrape() returns *)

\* the records of a list that are the first of their number, in their order
FirstOccurrences(list) ==
    LET firsts == {k \in DOMAIN list :
                      \A m \in 1..(k - 1) : list[m].tenderNumber # list[k].tenderNumber}
    IN  [j \in 1..Cardinality(firsts) |->
            list[CHOOSE k \in firsts : Cardinality({m \in firsts : m < k}) = j - 1]]

\* C12: the list each scrape() returns is what the scraper collected, in the
\* order collected, with every record after the first of its number taken
\* out: no tenderNumber is in it twice.
C12_ReturnsFirstOccurrences ==
    [][(pc \in {"mr_return", "gov_return", "muni_return", "co_return"} =>
            (returned')[Len(returned')].val = FirstOccurrences(tenders))]_vars

-----------------------------------------------------------------------------
(* Properties of a fragment whose parsing raises *)

Answered200 == resp.kind = "http" /\ resp.status = 200

\* how many fragments of a page satisfy P
HowMany(fragments, P(_)) == Len(SelectSeq(fragments, P))

\* the fragments that give a record when they are parsed, per kind of page
ApiItemGivesRecord(it) == it.dict /\ (it.Title # <<>> \/ it.title # <<>>) /\ it.EndDate # None
HeadingGivesRecord(it) == ~it.raises /\ it.title_el
TitledGivesRecord(it) == ~it.raises /\ it.title_el /\ it.title # <<>>

-----------------------------------------------------------------------------
(* Properties of a target that fails *)

\* the request raised, or was answered with another status than 200, or with a
\* body that does not decode
Failed(r) ==
    \/ r.kind = "exception"
    \/ r.kind = "http" /\ r.status # 200
    \/ r.kind = "http" /\ r.body = "undecodable"

\* the scrapers with several targets: where they fetch, and how many targets
Targets == {[fetch |-> "mr_fetch", count |-> MaxPages],
            [fetch |-> "muni_fetch", count |-> NumMunicipalities],
            [fetch |-> "co_fetch", count |-> NumCompanies]}

-----------------------------------------------------------------------------
(* Properties of the timestamp numbers *)

\* the fragments of a page the loop reached: all of them, or those up to the
\* first whose parsing raised
Reached(items) ==
    IF \E k \in DOMAIN items : items[k].raises
    THEN CHOOSE k \in DOMAIN items :
             items[k].raises /\ \A m \in 1..(k - 1) : ~items[m].raises
    ELSE Len(items)

RECURSIVE Ticks(_, _, _)
Ticks(items, from, to) ==
    IF from > to THEN 0 ELSE items[from].tick + Ticks(items, from + 1, to)

\* the place in the page of the fragment that gave the j-th record
FragmentOf(items, Gives(_), j) ==
    LET giving == {k \in 1..Reached(items) : Gives(items[k])}
    IN  CHOOSE k \in giving : Cardinality({m \in giving : m < k}) = j - 1

\* the clock second in which the fragment of the j-th record was parsed, the
\* clock being at `now` when the loop ended
SecondOf(items, Gives(_), j, now) ==
    now - Ticks(items, FragmentOf(items, Gives, j) + 1, Reached(items))

\* the records of a page of timestamp numbers share a number exactly when
\* their fragments were parsed in one second
SharedPerSecond(Gives(_)) ==
    \A i, j \in DOMAIN page_tenders :
        (page_tenders[i].tenderNumber = page_tenders[j].tenderNumber)
            <=> (SecondOf(resp.items, Gives, i, clock) = SecondOf(resp.items, Gives, j, clock))

TimestampPages ==
    /\ (pc = "gov_return" /\ Answered200 /\ resp.body = "html") =>
           SharedPerSecond(HeadingGivesRecord)
    /\ (pc \in {"co_fetch", "co_return"} /\ Answered200) =>
           SharedPerSecond(TitledGivesRecord)

\* the records of the i-th scraper's list that carry a timestamp number
Timestamped(i) ==
    {a \in DOMAIN Results(i) :
        \/ i = 4
        \/ i = 2 /\ Len(Results(i)[a].tenderNumber) = 3 /\ Results(i)[a].tenderNumber[1] = "GOV"}

Kept(number) == Snapshot[CHOOSE k \in DOMAIN Snapshot : Snapshot[k].tenderNumber = number]

HeldOnce(number) ==
    Cardinality({k \in DOMAIN Snapshot : Snapshot[k].tenderNumber = number}) = 1

ReturnedEarlier(i, number) ==
    \E j \in 1..(i - 1) : number \in Numbers(Results(j))

\* C15 as stated: the records of one prefix built in one second share a
\* number, and the envelope holds one record of that number: the one of the
\* first fragment parsed in that second.
C15_FirstFragmentKept ==
    /\ TimestampPages
    /\ pc = "done" =>
           \A i \in {2, 4} : \A a \in Timestamped(i) :
               LET number == Results(i)[a].tenderNumber
               IN  /\ HeldOnce(number)
                   /\ Kept(number) = Results(i)[FirstIndex(Results(i), number)]

\* C15 as amended: the records of one prefix built in one second share a
\* number, and the envelope holds one record of that number: the one of the
\* first fragment parsed in that second, unless a scraper run earlier returned
\* a record of that very number, which is then the one held.
C15_FirstOfNumberKept ==
    /\ TimestampPages
    /\ pc = "done" =>
           \A i \in {2, 4} : \A a \in Timestamped(i) :
               LET number == Results(i)[a].tenderNumber
               IN  /\ HeldOnce(number)
                   /\ ~ReturnedEarlier(i, number) =>
                          Kept(number) = Results(i)[FirstIndex(Results(i), number)]
                   /\ ReturnedEarlier(i, number) =>
                          Kept(number) = Concatenation[FirstIndex(Concatenation, number)]

\* two fragments of different titles were parsed in one second for one prefix,
\* and the envelope holds the record of the first
C15_Witness ==
    /\ pc = "done"
    /\ \E i \in {2, 4} : \E a, b \in Timestamped(i) :
         /\ a < b
         /\ Results(i)[a].tenderNumber = Results(i)[b].tenderNumber
         /\ Results(i)[a].title # Results(i)[b].title
         /\ ~ReturnedEarlier(i, Results(i)[a].tenderNumber)
         /\ Kept(Results(i)[a].tenderNumber).title = Results(i)[a].title
         /\ \A c \in 1..(a - 1) : Results(i)[c].tenderNumber # Results(i)[a].tenderNumber

====
